---- MODULE Spec2Model ----
(***************************************************************************)
(* PrimoGPT, notebook "Data Merging and Filtering for PrimoGPT Training",  *)
(* and the dataset cell of the notebook "Training PrimoGPT Model" that     *)
(* reads the merged file.                                                  *)
(*                                                                         *)
(* Text is modelled as it is processed:                                    *)
(*   - a Python str is a sequence of one-character strings;                *)
(*   - a response text is a sequence of lexical tokens [t, v]: punctuation *)
(*     ("{" "}" ":" ","), line break "nl", blank "sp", a brace-free prose  *)
(*     word "w", and JSON literals ("int", "float", "str", "bool", "null") *)
(*     whose v is the literal's characters;                                *)
(*   - a file's text is a sequence of tokens [t, v, o]: "[" "]" ",", white *)
(*     space "ws", scalar literals, and "obj", one JSON object (o).        *)
(* String literals hold no brace and no line break.  The order in which    *)
(* os.listdir yields the entries is part of the directory's state: any     *)
(* order at the start, and a new entry at any position.                    *)
(***************************************************************************)
EXTENDS Integers, Sequences, FiniteSets, TLC

(* ------------------------------ bounds --------------------------------- *)

\* longest input sequence handed to filter_samples
MaxSamples == 3
\* most key/value pairs in an embedded object of the enumerated responses
MaxPairs == 2
\* most samples in one enumerated input file
MaxFileSamples == 2
\* most consecutive runs of the notebook
MaxRuns == 2

(* --------------------------- Python str / int -------------------------- *)

Digits == <<"0", "1", "2", "3", "4", "5", "6", "7", "8", "9">>

IsDigit(c) == \E d \in 1..10 : Digits[d] = c

DigitVal(c) == (CHOOSE d \in 1..10 : Digits[d] = c) - 1

RECURSIVE NatToStr(_)
NatToStr(n) ==
    IF n < 10 THEN <<Digits[n + 1]>>
    ELSE NatToStr(n \div 10) \o <<Digits[(n % 10) + 1]>>

\* str(v) of a Python int
IntToStr(n) == IF n < 0 THEN <<"-">> \o NatToStr(0 - n) ELSE NatToStr(n)

RECURSIVE StripLeft(_)
StripLeft(s) ==
    IF s # <<>> /\ Head(s) = " " THEN StripLeft(Tail(s)) ELSE s

RECURSIVE StripRight(_)
StripRight(s) ==
    IF s # <<>> /\ s[Len(s)] = " " THEN StripRight(SubSeq(s, 1, Len(s) - 1))
    ELSE s

\* digits, single underscores allowed between two digits
IsDigitBody(s) ==
    /\ s # <<>>
    /\ IsDigit(s[1])
    /\ IsDigit(s[Len(s)])
    /\ \A i \in 1..Len(s) : IsDigit(s[i]) \/ s[i] = "_"
    /\ \A i \in 1..(Len(s) - 1) : ~(s[i] = "_" /\ s[i + 1] = "_")

RECURSIVE DigitsValue(_, _)
DigitsValue(s, acc) ==
    IF s = <<>> THEN acc
    ELSE IF Head(s) = "_" THEN DigitsValue(Tail(s), acc)
    ELSE DigitsValue(Tail(s), acc * 10 + DigitVal(Head(s)))

\* int(s) of a Python str: [ok |-> TRUE, v |-> n], or ok = FALSE for ValueError
pyInt(s) ==
    LET b    == StripRight(StripLeft(s))
        sgn  == b # <<>> /\ (Head(b) = "-" \/ Head(b) = "+")
        body == IF sgn THEN Tail(b) ELSE b
    IN  IF IsDigitBody(body)
        THEN [ok |-> TRUE,
              v  |-> IF sgn /\ Head(b) = "-"
                     THEN 0 - DigitsValue(body, 0) ELSE DigitsValue(body, 0)]
        ELSE [ok |-> FALSE, v |-> 0]

(* ------------------------ Python values (json) ------------------------- *)

\* A Python value: t is the type, n the number of an int (1/0 of a bool),
\* s the characters of a str (the repr of a float), d the items of a dict
\* in insertion order.
PyInt(n)    == [t |-> "int",   n |-> n, s |-> <<>>, d |-> <<>>]
PyStr(s)    == [t |-> "str",   n |-> 0, s |-> s,    d |-> <<>>]
PyFloat(s)  == [t |-> "float", n |-> 0, s |-> s,    d |-> <<>>]
PyBool(b)   == [t |-> "bool",  n |-> IF b THEN 1 ELSE 0, s |-> <<>>, d |-> <<>>]
PyDict(d)   == [t |-> "dict",  n |-> 0, s |-> <<>>, d |-> d]
PyNone      == [t |-> "None",  n |-> 0, s |-> <<>>, d |-> <<>>]

RECURSIVE pyRepr(_)
RECURSIVE ItemsRepr(_)
\* repr(v)
pyRepr(v) ==
    CASE v.t = "int"   -> IntToStr(v.n)
      [] v.t = "str"   -> <<"'">> \o v.s \o <<"'">>
      [] v.t = "float" -> v.s
      [] v.t = "bool"  -> IF v.n = 1 THEN <<"T", "r", "u", "e">>
                          ELSE <<"F", "a", "l", "s", "e">>
      [] v.t = "dict"  -> <<"{">> \o ItemsRepr(v.d) \o <<"}">>
      [] OTHER         -> <<"N", "o", "n", "e">>

ItemsRepr(d) ==
    IF d = <<>> THEN <<>>
    ELSE <<"'">> \o d[1].k \o <<"'", ":", " ">> \o pyRepr(d[1].v)
         \o (IF Len(d) > 1 THEN <<",", " ">> \o ItemsRepr(Tail(d)) ELSE <<>>)

\* str(v): the characters themselves for a str, the repr otherwise
pyStr(v) == IF v.t = "str" THEN v.s ELSE pyRepr(v)

\* d[k] = v on a dict: a key already present keeps its position
DictSet(d, k, v) ==
    IF \E i \in 1..Len(d) : d[i].k = k
    THEN [i \in 1..Len(d) |-> IF d[i].k = k THEN [k |-> k, v |-> v] ELSE d[i]]
    ELSE Append(d, [k |-> k, v |-> v])

(* ----------------------- response text and json.loads ------------------ *)

Tok(t, v) == [t |-> t, v |-> v]

LB    == Tok("{", <<>>)
RB    == Tok("}", <<>>)
COLON == Tok(":", <<>>)
COMMA == Tok(",", <<>>)
NL    == Tok("nl", <<>>)
SP    == Tok("sp", <<>>)
W     == Tok("w", <<>>)

Peek(ts) == IF ts = <<>> THEN "eof" ELSE Head(ts).t

RECURSIVE SkipWs(_)
SkipWs(ts) ==
    IF Peek(ts) = "sp" \/ Peek(ts) = "nl" THEN SkipWs(Tail(ts)) ELSE ts

RECURSIVE StripZerosRight(_)
StripZerosRight(s) ==
    IF Len(s) > 1 /\ s[Len(s)] = "0" THEN StripZerosRight(SubSeq(s, 1, Len(s) - 1))
    ELSE s

\* the float of a literal <int>.<frac>, kept as its repr
FloatOf(s) ==
    LET dot == CHOOSE i \in 1..Len(s) : s[i] = "."
    IN  PyFloat(SubSeq(s, 1, dot) \o StripZerosRight(SubSeq(s, dot + 1, Len(s))))

\* the Python value of a JSON scalar literal
LiteralValue(tok) ==
    CASE tok.t = "int"   -> PyInt(pyInt(tok.v).v)
      [] tok.t = "float" -> FloatOf(tok.v)
      [] tok.t = "str"   -> PyStr(tok.v)
      [] tok.t = "bool"  -> PyBool(tok.v = <<"t", "r", "u", "e">>)
      [] OTHER           -> PyNone

IsLiteral(t) == t \in {"int", "float", "str", "bool", "null"}

ParseFail == [ok |-> FALSE, val |-> PyNone, rest |-> <<>>]

RECURSIVE ParseValue(_)
RECURSIVE ParseMembers(_, _)
\* one JSON value at the head of ts
ParseValue(ts) ==
    IF IsLiteral(Peek(ts))
    THEN [ok |-> TRUE, val |-> LiteralValue(Head(ts)), rest |-> Tail(ts)]
    ELSE IF Peek(ts) = "{"
    THEN LET in == SkipWs(Tail(ts))
         IN  IF Peek(in) = "}"
             THEN [ok |-> TRUE, val |-> PyDict(<<>>), rest |-> Tail(in)]
             ELSE ParseMembers(in, <<>>)
    ELSE ParseFail

\* the members of an object up to its closing brace; acc holds those read
ParseMembers(ts, acc) ==
    IF Peek(ts) # "str" THEN ParseFail
    ELSE LET key   == Head(ts).v
             colon == SkipWs(Tail(ts))
         IN  IF Peek(colon) # ":" THEN ParseFail
             ELSE LET r == ParseValue(SkipWs(Tail(colon)))
                  IN  IF ~r.ok THEN ParseFail
                      ELSE LET after == SkipWs(r.rest)
                               d     == DictSet(acc, key, r.val)
                           IN  IF Peek(after) = "}"
                               THEN [ok |-> TRUE, val |-> PyDict(d),
                                     rest |-> Tail(after)]
                               ELSE IF Peek(after) = ","
                               THEN ParseMembers(SkipWs(Tail(after)), d)
                               ELSE ParseFail

\* json.loads(ts): ok = FALSE stands for json.JSONDecodeError
json_loads(ts) ==
    LET r == ParseValue(SkipWs(ts))
    IN  IF r.ok /\ SkipWs(r.rest) = <<>> THEN [ok |-> TRUE, val |-> r.val]
        ELSE [ok |-> FALSE, val |-> PyNone]

\* j closes a match opened at i: "." matches every character but a line break
Closes(ts, i, j) ==
    /\ j > i
    /\ ts[j].t = "}"
    /\ \A k \in (i + 1)..(j - 1) : ts[k].t # "nl"

MinOf(S) == CHOOSE x \in S : \A y \in S : x <= y
MaxOf(S) == CHOOSE x \in S : \A y \in S : x >= y

\* re.search(r'\{.*?\}', ts): the leftmost match, ended at the first brace
regex_search_lazy(ts) ==
    LET starts == {i \in 1..Len(ts) :
                      ts[i].t = "{" /\ \E j \in 1..Len(ts) : Closes(ts, i, j)}
    IN  IF starts = {} THEN [found |-> FALSE, group |-> <<>>]
        ELSE LET i == MinOf(starts)
                 j == MinOf({e \in 1..Len(ts) : Closes(ts, i, e)})
             IN  [found |-> TRUE, group |-> SubSeq(ts, i, j)]

\* re.search(r'\{.*\}', ts): the leftmost match, extended greedily
regex_search(ts) ==
    LET starts == {i \in 1..Len(ts) :
                      ts[i].t = "{" /\ \E j \in 1..Len(ts) : Closes(ts, i, j)}
    IN  IF starts = {} THEN [found |-> FALSE, group |-> <<>>]
        ELSE LET i == MinOf(starts)
                 j == MaxOf({e \in 1..Len(ts) : Closes(ts, i, e)})
             IN  [found |-> TRUE, group |-> SubSeq(ts, i, j)]

(* --------------------------- samples, JSON values ---------------------- *)

\* a sample object; its keys in the order the files write them
Sample(instruction, response) ==
    [instruction |-> instruction, input |-> "ctx", response |-> response]

SampleKeys ==
    << <<"i", "n", "s", "t", "r", "u", "c", "t", "i", "o", "n">>,
       <<"i", "n", "p", "u", "t">>,
       <<"r", "e", "s", "p", "o", "n", "s", "e">> >>

NoSample == [instruction |-> "", input |-> "", response |-> <<>>]

\* a JSON value at file level, as an element of a list or as a file token:
\* an object (o), or a scalar literal (t, v)
Obj(o)       == [t |-> "obj", v |-> <<>>, o |-> o]
Scalar(t, v) == [t |-> t, v |-> v, o |-> NoSample]

(* ------------------------------ parse_response ------------------------- *)

\* the value parse_response returns: None, or a dict of str to str
NoFeatures == [none |-> TRUE, d |-> <<>>]
Features(d) == [none |-> FALSE, d |-> d]

\* {k: str(v) for k, v in response_dict.items()}
StringifyAll(d) == [i \in 1..Len(d) |-> [k |-> d[i].k, v |-> pyStr(d[i].v)]]

\* {k: str(v) if v is not None else '0' for k, v in response_dict.items()}
Stringify(d) ==
    [i \in 1..Len(d) |->
        [k |-> d[i].k, v |-> IF d[i].v.t # "None" THEN pyStr(d[i].v) ELSE <<"0">>]]

\* the first value of the match is taken and what follows it is ignored
parse_response_lenient(response_str) ==
    LET match == regex_search(response_str)
    IN  IF match.found
        THEN LET r == ParseValue(SkipWs(match.group))
             IN  IF r.ok THEN Features(Stringify(r.val.d)) ELSE NoFeatures
        ELSE NoFeatures

parse_response(response_str) ==
    LET match == regex_search(response_str)
    IN  IF match.found
        THEN LET r == json_loads(match.group)
             IN  IF r.ok THEN Features(Stringify(r.val.d)) ELSE NoFeatures
        ELSE NoFeatures

(* ------------------------------ filter_samples ------------------------- *)

RECURSIVE AnyNonZeroEager(_)
\* any([...]) over a list built first: every value is read
AnyNonZeroEager(values) ==
    IF values = <<>> THEN "false"
    ELSE LET r    == pyInt(Head(values).v)
             rest == AnyNonZeroEager(Tail(values))
         IN  IF ~r.ok \/ rest = "raise" THEN "raise"
             ELSE IF r.v # 0 THEN "true"
             ELSE rest

RECURSIVE AllNonZero(_)
\* all(...) in place of any(...)
AllNonZero(values) ==
    IF values = <<>> THEN "true"
    ELSE LET r == pyInt(Head(values).v)
         IN  IF ~r.ok THEN "raise"
             ELSE IF r.v = 0 THEN "false"
             ELSE AllNonZero(Tail(values))

RECURSIVE AnyNonZero(_)
\* any(int(value) != 0 if value is not None else False for value in ...):
\* "true", "false", or "raise" when int(value) fails before a true element
AnyNonZero(values) ==
    IF values = <<>> THEN "false"
    ELSE LET r == pyInt(Head(values).v)
         IN  IF ~r.ok THEN "raise"
             ELSE IF r.v # 0 THEN "true"
             ELSE AnyNonZero(Tail(values))

\* the branch the loop body takes for one element of data: "keep", "remove",
\* or "raise" (sample['response'] on an element that is no object, or int())
Decide(sample) ==
    IF sample.t # "obj" THEN "raise"
    ELSE LET response == parse_response(sample.o.response)
         IN  IF response.none \/ response.d = <<>> THEN "remove"
             ELSE LET a == AnyNonZero(response.d)
                  IN  IF a = "raise" THEN "raise"
                      ELSE IF a = "true" THEN "keep" ELSE "remove"

RECURSIVE FilterLoopUnique(_, _, _)
\* a sample already retained is not appended again
FilterLoopUnique(data, filtered_data, removed_samples) ==
    IF data = <<>>
    THEN [raised |-> FALSE, filtered_data |-> filtered_data,
          removed_samples |-> removed_samples]
    ELSE LET b == Decide(Head(data))
         IN  IF b = "raise"
             THEN [raised |-> TRUE, filtered_data |-> <<>>, removed_samples |-> <<>>]
             ELSE IF b = "keep"
             THEN FilterLoopUnique(Tail(data),
                      IF \E i \in 1..Len(filtered_data) : filtered_data[i] = Head(data)
                      THEN filtered_data ELSE Append(filtered_data, Head(data)),
                      removed_samples)
             ELSE FilterLoopUnique(Tail(data), filtered_data,
                                   Append(removed_samples, Head(data)))

RECURSIVE FilterLoop(_, _, _)
FilterLoop(data, filtered_data, removed_samples) ==
    IF data = <<>>
    THEN [raised |-> FALSE, filtered_data |-> filtered_data,
          removed_samples |-> removed_samples]
    ELSE LET b == Decide(Head(data))
         IN  IF b = "raise"
             THEN [raised |-> TRUE, filtered_data |-> <<>>, removed_samples |-> <<>>]
             ELSE IF b = "keep"
             THEN FilterLoop(Tail(data), Append(filtered_data, Head(data)),
                             removed_samples)
             ELSE FilterLoop(Tail(data), filtered_data,
                             Append(removed_samples, Head(data)))

\* filter_samples(data): raised = TRUE when an error propagates and nothing
\* is returned
filter_samples(data) == FilterLoop(data, <<>>, <<>>)

(* ------------------- file text: json.load and json.dump ---------------- *)

FLBK   == Scalar("[", <<>>)
FRBK   == Scalar("]", <<>>)
FCOMMA == Scalar(",", <<>>)
FWS    == Scalar("ws", <<>>)
FJUNK  == Scalar("junk", <<>>)

RECURSIVE FSkipWs(_)
FSkipWs(ts) == IF Peek(ts) = "ws" THEN FSkipWs(Tail(ts)) ELSE ts

IsElement(t) == t = "obj" \/ IsLiteral(t)

\* what json.load returns: a list (items), or one object or scalar (e)
JList(items) == [t |-> "list", items |-> items, e |-> Scalar("null", <<>>)]
JOne(e)      == [t |-> e.t, items |-> <<>>, e |-> e]

LoadFail == [ok |-> FALSE, val |-> JList(<<>>), rest |-> <<>>]

RECURSIVE ParseElements(_, _)
\* the elements of an array up to its closing bracket; acc holds those read
ParseElements(ts, acc) ==
    IF ~IsElement(Peek(ts)) THEN LoadFail
    ELSE LET after == FSkipWs(Tail(ts))
             items == Append(acc, Head(ts))
         IN  IF Peek(after) = "]"
             THEN [ok |-> TRUE, val |-> JList(items), rest |-> Tail(after)]
             ELSE IF Peek(after) = ","
             THEN ParseElements(FSkipWs(Tail(after)), items)
             ELSE LoadFail

\* json.load(file) on the file's text: ok = FALSE stands for JSONDecodeError
json_load(text) ==
    LET in == FSkipWs(text)
        r  == IF Peek(in) = "["
              THEN LET a == FSkipWs(Tail(in))
                   IN  IF Peek(a) = "]"
                       THEN [ok |-> TRUE, val |-> JList(<<>>), rest |-> Tail(a)]
                       ELSE ParseElements(a, <<>>)
              ELSE IF IsElement(Peek(in))
              THEN [ok |-> TRUE, val |-> JOne(Head(in)), rest |-> Tail(in)]
              ELSE LoadFail
    IN  IF r.ok /\ FSkipWs(r.rest) = <<>> THEN [ok |-> TRUE, val |-> r.val]
        ELSE [ok |-> FALSE, val |-> JList(<<>>)]

\* list.extend accepts any iterable: a list, a dict (its keys), a str (its
\* characters); a number, a bool or None raises TypeError
Iterable(val) == val.t \in {"list", "obj", "str"}

Iterate(val) ==
    CASE val.t = "list" -> val.items
      [] val.t = "obj"  -> [i \in 1..Len(SampleKeys) |-> Scalar("str", SampleKeys[i])]
      [] val.t = "str"  -> [i \in 1..Len(val.e.v) |-> Scalar("str", <<val.e.v[i]>>)]
      [] OTHER          -> <<>>

RECURSIVE DumpItems(_)
DumpItems(items) ==
    IF items = <<>> THEN <<>>
    ELSE <<FWS, Head(items)>>
         \o (IF Len(items) > 1 THEN <<FCOMMA>> \o DumpItems(Tail(items)) ELSE <<>>)

\* json.dump(obj, f, indent=2) of a list: the text written
json_dump(obj) ==
    IF obj = <<>> THEN <<FLBK, FRBK>>
    ELSE <<FLBK>> \o DumpItems(obj) \o <<FWS, FRBK>>

\* filename.endswith(suffix)
EndsWith(s, suffix) ==
    /\ Len(s) >= Len(suffix)
    /\ SubSeq(s, Len(s) - Len(suffix) + 1, Len(s)) = suffix

DotJson == <<".", "j", "s", "o", "n">>

\* 'data_for_train_primogpt/merged_data.json': the entry of the data directory
OutputName ==
    <<"m", "e", "r", "g", "e", "d", "_", "d", "a", "t", "a">> \o DotJson

(* -------------------------------- paths -------------------------------- *)

\* a relative path: the directory part as components, and the file name
data_directory == <<"data_for_train_primogpt">>

\* output_file = 'data_for_train_primogpt/merged_data.json'
output_file == [dir |-> <<"data_for_train_primogpt">>, base |-> OutputName]

\* open('./data/merged_data.json', 'r') of the fine-tuning notebook
train_file == [dir |-> <<".", "data">>, base |-> OutputName]

\* a "." component names the directory it stands in
Normalise(d) == SelectSeq(d, LAMBDA c : c # ".")

\* the location a relative path denotes for a process whose working
\* directory is wd; wd is given relative to the working directory of the
\* merge/filter notebook
Locate(wd, path) == [dir |-> wd \o Normalise(path.dir), base |-> path.base]

(* --------------------------- enumerated inputs ------------------------- *)

BoundedSeq(S, n) == UNION {[1..k -> S] : k \in 0..n}

Letters == <<"a", "b", "c", "d", "e", "f">>

KeyTok(i) == Tok("str", <<Letters[i]>>)

VInt0  == Tok("int", <<"0">>)
VInt1  == Tok("int", <<"1">>)
VStr0  == Tok("str", <<"0">>)
VStr7  == Tok("str", <<"7">>)
VHigh  == Tok("str", <<"h", "i", "g", "h">>)
VNull  == Tok("null", <<"n", "u", "l", "l">>)
VFloat == Tok("float", <<"1", ".", "5">>)
VTrue  == Tok("bool", <<"t", "r", "u", "e">>)

ValueToks == {VInt0, VInt1, VStr0, VStr7, VHigh, VNull, VFloat, VTrue}

\* the values of an embedded object, in the order they are written;
\* the i-th value is written under the i-th key
Objects == BoundedSeq(ValueToks, MaxPairs)

RECURSIVE Members(_, _, _)
Members(vals, i, sep) ==
    IF i > Len(vals) THEN <<>>
    ELSE <<KeyTok(i), COLON, SP, vals[i]>>
         \o (IF i < Len(vals) THEN <<COMMA, sep>> \o Members(vals, i + 1, sep)
             ELSE <<>>)

\* the object written on one line, and spread over several lines
OneLine(vals)   == <<LB>> \o Members(vals, 1, SP) \o <<RB>>
MultiLine(vals) == <<LB, NL>> \o Members(vals, 1, NL) \o <<NL, RB>>

Prefixes == {<<>>, <<W, SP>>, <<W, NL>>}
Suffixes == {<<>>, <<SP, W>>, <<NL, W>>}

\* one object embedded in brace-free prose
Embedded ==
    {pre \o body \o post :
        pre \in Prefixes, post \in Suffixes,
        body \in {OneLine(o) : o \in Objects} \cup {MultiLine(o) : o \in Objects}}

\* two objects on one line with prose between them
TwoObjects ==
    {OneLine(<<u>>) \o <<SP, W, SP>> \o OneLine(<<v>>) :
        u \in ValueToks, v \in ValueToks}

\* two or three objects on one line, with prose between, before and after
SeveralObjects ==
    {pre \o OneLine(<<u>>) \o <<SP, W, SP>> \o OneLine(<<v>>) \o post :
        u \in {VInt1, VInt0}, v \in {VStr7, VHigh},
        pre \in {<<>>, <<W, SP>>}, post \in {<<>>, <<SP, W>>}}
    \cup
    {OneLine(<<u>>) \o <<SP, W, SP>> \o OneLine(<<v, u>>) \o <<W>> \o OneLine(<<u>>) :
        u \in {VInt1, VInt0}, v \in {VStr7, VNull}}

\* no brace at all, an opening brace never closed, braces around prose,
\* a trailing comma, a key without a value
Malformed ==
    { <<W, SP, W>>,
      <<W, SP, LB, KeyTok(1), COLON, SP, VInt1>>,
      <<W, SP, LB, KeyTok(1), COLON, SP, VHigh>>,
      <<LB, W, RB>>,
      <<LB, KeyTok(1), COLON, SP, VInt1, COMMA, RB>>,
      <<LB, KeyTok(1), COLON, RB, SP, W>>,
      <<>> }

Responses == Embedded \cup TwoObjects \cup SeveralObjects \cup Malformed

\* elements for the longer input sequences: retained (i1, i2), removed (i3
\* zero values, i4 no brace, i6 malformed object), failing (i5 non-numeric
\* value first), and an element that is no object
FilterPool ==
    { Obj(Sample("i1", <<W, SP>> \o OneLine(<<VInt1, VInt0>>))),
      Obj(Sample("i2", <<W, SP>> \o OneLine(<<VInt1, VInt0>>))),
      Obj(Sample("i3", OneLine(<<VInt0, VStr0, VNull>>))),
      Obj(Sample("i4", <<W, SP, W>>)),
      Obj(Sample("i5", OneLine(<<VHigh, VInt1>>))),
      Obj(Sample("i6", <<LB, KeyTok(1), COLON, SP, VInt1, COMMA, RB>>)),
      Scalar("str", <<"x">>) }

(* ------------------------------- state --------------------------------- *)

VARIABLES
    arg,    \* the argument of a call of filter_samples / the samples parsed
    ret,    \* what filter_samples(arg) returned, or that it raised
    idx,    \* the element of arg handed to parse_response
    feat,   \* what parse_response returned for arg[idx]
    fpc     \* "idle", "filtered" (after filter_samples), "parsed"

fvars == <<arg, ret, idx, feat, fpc>>

NoReturn == [raised |-> FALSE, filtered_data |-> <<>>, removed_samples |-> <<>>]

(* ------------------------- the notebook's state ------------------------ *)

VARIABLES
    dirExists,    \* the directory data_for_train_primogpt exists
    dir,          \* its entries, in the order os.listdir yields them
    files,        \* entry -> [readable, text]
    pc,           \* "load", "for", "with", "report", "save", "done", "failed"
    listing,      \* load_json_files: the entries the for loop has yet to visit
    data,         \* load_json_files: its local list
    opened,       \* the entries whose file is open
    all_samples,  \* the notebook's global, once the load cell has assigned it
    defined,      \* all_samples is assigned
    stdout,       \* what the cells printed
    runs,         \* completed runs of the notebook
    error         \* the error that stopped the run, "" when none

nvars == <<dirExists, dir, files, pc, listing, data, opened, all_samples,
           defined, stdout, runs, error>>

(* ------------------- the fine-tuning notebook's state ------------------ *)

VARIABLES
    dataDir,   \* the entries of its ./data directory: name -> file
    dpc,       \* "idle", "loaded" or "failed"
    dataset,   \* the rows of dataset_dict
    derror     \* the exception that ended the dataset cell

dvars == <<dataDir, dpc, dataset, derror>>

vars == <<nvars, fvars, dvars>>

File(readable, text) == [readable |-> readable, text |-> text]

Perms(S) ==
    {p \in [1..Cardinality(S) -> S] :
        \A i, j \in 1..Cardinality(S) : p[i] = p[j] => i = j}

InsertAt(seq, p, x) == SubSeq(seq, 1, p - 1) \o <<x>> \o SubSeq(seq, p, Len(seq))

Printed(msg, n) == [msg |-> msg, n |-> n]

(* ----------------------- enumerated directories ------------------------ *)

NameA   == <<"a">> \o DotJson
NameB   == <<"b">> \o DotJson
NameTxt == <<"n", ".", "t", "x", "t">>

Names == {NameA, NameB, NameTxt, OutputName}

\* a sample the filter would retain, and one it would remove
Kept    == Obj(Sample("k", <<W, SP>> \o OneLine(<<VInt1, VInt0>>)))
Dropped == Obj(Sample("z", OneLine(<<VInt0, VNull>>)))

Arrays == {json_dump(d) : d \in BoundedSeq({Kept, Dropped}, MaxFileSamples)}

PoolA ==
    {File(TRUE, t) : t \in Arrays}
    \cup { File(TRUE, json_dump(<<Scalar("int", <<"5">>)>>)),  \* [5]
           File(TRUE, <<FLBK, FWS, Kept, FCOMMA>>),            \* cut short
           File(TRUE, <<Kept>>),                               \* one object
           File(TRUE, <<Scalar("str", <<"a", "b">>)>>),        \* "ab"
           File(TRUE, <<Scalar("int", <<"5">>)>>),             \* 5
           File(TRUE, <<Scalar("null", <<"n", "u", "l", "l">>)>>),
           File(FALSE, json_dump(<<Kept>>)) }                  \* no permission

PoolB ==
    { File(TRUE, json_dump(<<Kept>>)),
      File(TRUE, json_dump(<<Dropped, Kept>>)),
      File(TRUE, <<FJUNK>>),
      File(FALSE, json_dump(<<Dropped>>)) }

PoolTxt == { File(TRUE, <<FJUNK>>), File(TRUE, json_dump(<<Dropped>>)) }

\* what an earlier run may have left at the output path
PoolOut == { File(TRUE, json_dump(<<Dropped, Dropped, Dropped>>)) }

Pool(name) ==
    CASE name = NameA   -> PoolA
      [] name = NameB   -> PoolB
      [] name = NameTxt -> PoolTxt
      [] OTHER          -> PoolOut

Directories ==
    UNION {{f \in [D -> PoolA \cup PoolB \cup PoolTxt \cup PoolOut] :
               \A n \in D : f[n] \in Pool(n)} : D \in SUBSET Names}

\* where the kernel of the fine-tuning notebook may run: in the working
\* directory of the merge/filter notebook, or inside its data directory
Cwds == {<<>>, data_directory}

\* the ./data directory of the fine-tuning notebook: empty or missing, or
\* holding a merged_data.json put there by hand
DataDirs == {<<>>, [n \in {OutputName} |-> File(TRUE, json_dump(<<Kept>>))]}

(* ----------------------------- the notebook ---------------------------- *)

InitNotebook ==
    /\ dirExists \in BOOLEAN
    /\ files \in Directories
    /\ ~dirExists => DOMAIN files = {}
    /\ dir \in Perms(DOMAIN files)
    /\ pc = "load"
    /\ listing = <<>>
    /\ data = <<>>
    /\ opened = {}
    /\ all_samples = <<>>
    /\ defined = FALSE
    /\ stdout = <<>>
    /\ runs = 0
    /\ error = ""

IdleFilter ==
    /\ arg = <<>>
    /\ ret = NoReturn
    /\ idx = 0
    /\ feat = NoFeatures
    /\ fpc = "idle"

\* the fine-tuning notebook before its dataset cell has run
InitDriver ==
    /\ dataDir \in DataDirs
    /\ dpc = "idle"
    /\ dataset = <<>>
    /\ derror = ""

Init == InitNotebook /\ IdleFilter /\ InitDriver

Raise(e) ==
    /\ pc' = "failed"
    /\ error' = e

\* load cell: load_json_files(data_directory) is called; data = [] and
\* os.listdir(directory)
LoadCall ==
    /\ pc = "load"
    /\ IF dirExists
       THEN /\ pc' = "for"
            /\ listing' = dir
            /\ data' = <<>>
            /\ UNCHANGED error
       ELSE /\ Raise("FileNotFoundError")
            /\ UNCHANGED <<listing, data>>
    /\ UNCHANGED <<dirExists, dir, files, opened, all_samples, defined, stdout, runs>>
    /\ UNCHANGED <<fvars, dvars>>

\* for filename in ...: an entry that does not end in '.json' is passed over
LoadSkip ==
    /\ pc = "for"
    /\ listing # <<>>
    /\ ~EndsWith(Head(listing), DotJson)
    /\ listing' = Tail(listing)
    /\ UNCHANGED <<dirExists, dir, files, pc, data, opened, all_samples, defined,
                   stdout, runs, error>>
    /\ UNCHANGED <<fvars, dvars>>

\* with open(os.path.join(directory, filename), 'r') as file
LoadOpen ==
    /\ pc = "for"
    /\ listing # <<>>
    /\ EndsWith(Head(listing), DotJson)
    /\ IF files[Head(listing)].readable
       THEN /\ opened' = opened \cup {Head(listing)}
            /\ pc' = "with"
            /\ UNCHANGED error
       ELSE /\ Raise("PermissionError")
            /\ UNCHANGED opened
    /\ UNCHANGED <<dirExists, dir, files, listing, data, all_samples, defined,
                   stdout, runs>>
    /\ UNCHANGED <<fvars, dvars>>

\* a file that cannot be parsed or iterated is passed over (try/except: continue)
LoadReadSkipBad ==
    /\ pc = "with"
    /\ LET r == json_load(files[Head(listing)].text)
       IN  /\ data' = IF r.ok /\ Iterable(r.val) THEN data \o Iterate(r.val) ELSE data
           /\ listing' = Tail(listing)
           /\ pc' = "for"
           /\ UNCHANGED error
    /\ opened' = opened \ {Head(listing)}
    /\ UNCHANGED <<dirExists, dir, files, all_samples, defined, stdout, runs>>
    /\ UNCHANGED <<fvars, dvars>>

\* an element already in data is not added again
LoadReadDedup ==
    /\ pc = "with"
    /\ LET r == json_load(files[Head(listing)].text)
       IN  IF ~r.ok
           THEN /\ Raise("JSONDecodeError")
                /\ UNCHANGED <<listing, data>>
           ELSE IF ~Iterable(r.val)
           THEN /\ Raise("TypeError")
                /\ UNCHANGED <<listing, data>>
           ELSE /\ data' = data \o SelectSeq(Iterate(r.val),
                               LAMBDA e : \A i \in 1..Len(data) : data[i] # e)
                /\ listing' = Tail(listing)
                /\ pc' = "for"
                /\ UNCHANGED error
    /\ opened' = opened \ {Head(listing)}
    /\ UNCHANGED <<dirExists, dir, files, all_samples, defined, stdout, runs>>
    /\ UNCHANGED <<fvars, dvars>>

\* file = open(...); data.extend(json.load(file)); file.close(): the file is
\* closed only when json.load and extend succeed
LoadReadNoWith ==
    /\ pc = "with"
    /\ LET r == json_load(files[Head(listing)].text)
       IN  IF ~r.ok
           THEN /\ Raise("JSONDecodeError")
                /\ UNCHANGED <<listing, data, opened>>
           ELSE IF ~Iterable(r.val)
           THEN /\ Raise("TypeError")
                /\ UNCHANGED <<listing, data, opened>>
           ELSE /\ data' = data \o Iterate(r.val)
                /\ listing' = Tail(listing)
                /\ pc' = "for"
                /\ opened' = opened \ {Head(listing)}
                /\ UNCHANGED error
    /\ UNCHANGED <<dirExists, dir, files, all_samples, defined, stdout, runs>>
    /\ UNCHANGED <<fvars, dvars>>

\* the content of merged_data.json is left out of data
LoadReadNotOutput ==
    /\ pc = "with"
    /\ LET r == json_load(files[Head(listing)].text)
       IN  IF ~r.ok
           THEN /\ Raise("JSONDecodeError")
                /\ UNCHANGED <<listing, data>>
           ELSE IF ~Iterable(r.val)
           THEN /\ Raise("TypeError")
                /\ UNCHANGED <<listing, data>>
           ELSE /\ data' = IF Head(listing) = OutputName THEN data
                           ELSE data \o Iterate(r.val)
                /\ listing' = Tail(listing)
                /\ pc' = "for"
                /\ UNCHANGED error
    /\ opened' = opened \ {Head(listing)}
    /\ UNCHANGED <<dirExists, dir, files, all_samples, defined, stdout, runs>>
    /\ UNCHANGED <<fvars, dvars>>

\* data.extend(json.load(file)), and the with block closes the file, also
\* when json.load or extend raises
LoadRead ==
    /\ pc = "with"
    /\ LET r == json_load(files[Head(listing)].text)
       IN  IF ~r.ok
           THEN /\ Raise("JSONDecodeError")
                /\ UNCHANGED <<listing, data>>
           ELSE IF ~Iterable(r.val)
           THEN /\ Raise("TypeError")
                /\ UNCHANGED <<listing, data>>
           ELSE /\ data' = data \o Iterate(r.val)
                /\ listing' = Tail(listing)
                /\ pc' = "for"
                /\ UNCHANGED error
    /\ opened' = opened \ {Head(listing)}
    /\ UNCHANGED <<dirExists, dir, files, all_samples, defined, stdout, runs>>
    /\ UNCHANGED <<fvars, dvars>>

\* return data, assigned to all_samples
LoadReturn ==
    /\ pc = "for"
    /\ listing = <<>>
    /\ all_samples' = data
    /\ defined' = TRUE
    /\ pc' = "report"
    /\ UNCHANGED <<dirExists, dir, files, listing, data, opened, stdout, runs, error>>
    /\ UNCHANGED <<fvars, dvars>>

\* print(f"Total samples before filtering: {len(all_samples)}")
ReportCell ==
    /\ pc = "report"
    /\ stdout' = Append(stdout, Printed("total", Len(all_samples)))
    /\ pc' = "save"
    /\ UNCHANGED <<dirExists, dir, files, listing, data, opened, all_samples,
                   defined, runs, error>>
    /\ UNCHANGED <<fvars, dvars>>

\* nothing is written when there is no sample: if all_samples: json.dump(...)
SaveCellSkipEmpty ==
    /\ pc = "save"
    /\ IF all_samples = <<>>
       THEN UNCHANGED <<files, dir>>
       ELSE /\ files' = [n \in DOMAIN files \cup {OutputName} |->
                           IF n = OutputName
                           THEN File(IF n \in DOMAIN files THEN files[n].readable
                                     ELSE TRUE,
                                     json_dump(all_samples))
                           ELSE files[n]]
            /\ IF OutputName \in DOMAIN files THEN dir' = dir
               ELSE \E p \in 1..(Len(dir) + 1) : dir' = InsertAt(dir, p, OutputName)
    /\ stdout' = Append(stdout, Printed("saved", 0))
    /\ runs' = runs + 1
    /\ pc' = "done"
    /\ UNCHANGED <<dirExists, listing, data, opened, all_samples, defined, error>>
    /\ UNCHANGED <<fvars, dvars>>

\* save cell: open(output_file, 'w') creates or truncates the file,
\* json.dump(all_samples, f, indent=2) writes it, and the path is printed
SaveCell ==
    /\ pc = "save"
    /\ files' = [n \in DOMAIN files \cup {OutputName} |->
                    IF n = OutputName
                    THEN File(IF n \in DOMAIN files THEN files[n].readable ELSE TRUE,
                              json_dump(all_samples))
                    ELSE files[n]]
    /\ IF OutputName \in DOMAIN files THEN dir' = dir
       ELSE \E p \in 1..(Len(dir) + 1) : dir' = InsertAt(dir, p, OutputName)
    /\ stdout' = Append(stdout, Printed("saved", 0))
    /\ runs' = runs + 1
    /\ pc' = "done"
    /\ UNCHANGED <<dirExists, listing, data, opened, all_samples, defined, error>>
    /\ UNCHANGED <<fvars, dvars>>

\* the notebook is run again from its first cell
RunAgain ==
    /\ pc = "done"
    /\ runs < MaxRuns
    /\ pc' = "load"
    /\ UNCHANGED <<dirExists, dir, files, listing, data, opened, all_samples,
                   defined, stdout, runs, error>>
    /\ UNCHANGED <<fvars, dvars>>

(* ------------------------ the fine-tuning notebook --------------------- *)

\* one row of dataset_dict: item["instruction"], item["input"], item["response"]
Row(item) ==
    [instruction |-> item.o.instruction, input |-> item.o.input,
     output |-> item.o.response]

Rows(items) == [i \in 1..Len(items) |-> Row(items[i])]

DriverRaise(e) ==
    /\ dpc' = "failed"
    /\ derror' = e
    /\ UNCHANGED dataset

\* dataset cell: with open('./data/merged_data.json', 'r') as f:
\* data = json.load(f), then one row per item of data.  The file is looked up
\* where the path leads from the kernel's working directory wd.
DatasetCell ==
    /\ dpc = "idle"
    /\ \E wd \in Cwds :
       LET loc     == Locate(wd, train_file)
           inMerge == loc.dir = Locate(<<>>, output_file).dir
           d       == IF inMerge THEN files ELSE dataDir
       IN  IF loc.base \notin DOMAIN d
           THEN DriverRaise("FileNotFoundError")
           ELSE IF ~d[loc.base].readable
           THEN DriverRaise("PermissionError")
           ELSE LET r == json_load(d[loc.base].text)
                IN  IF ~r.ok
                    THEN DriverRaise("JSONDecodeError")
                    ELSE IF ~Iterable(r.val)
                    THEN DriverRaise("TypeError")
                    ELSE IF \E i \in 1..Len(Iterate(r.val)) :
                                Iterate(r.val)[i].t # "obj"
                    THEN DriverRaise("TypeError")
                    ELSE /\ dataset' = Rows(Iterate(r.val))
                         /\ dpc' = "loaded"
                         /\ UNCHANGED derror
    /\ UNCHANGED dataDir
    /\ UNCHANGED <<nvars, fvars>>

Next ==
    \/ DatasetCell
    \/ LoadCall
    \/ LoadSkip
    \/ LoadOpen
    \/ LoadRead
    \/ LoadReturn
    \/ ReportCell
    \/ SaveCell
    \/ RunAgain

Spec == Init /\ [][Next]_vars

\* the notebook started on a directory that no earlier run has written to
InitFresh == Init /\ OutputName \notin DOMAIN files

SpecFresh == InitFresh /\ [][Next]_vars

(* ------------- filter_samples and parse_response on their own ---------- *)

InitFilter ==
    /\ arg \in {<<Obj(Sample("i1", r))>> : r \in Responses}
                \cup BoundedSeq(FilterPool, MaxSamples)
    /\ ret = NoReturn
    /\ idx = 0
    /\ feat = NoFeatures
    /\ fpc = "idle"

CallFilter ==
    /\ fpc = "idle"
    /\ ret' = filter_samples(arg)
    /\ fpc' = "filtered"
    /\ UNCHANGED <<arg, idx, feat>>
    /\ UNCHANGED <<nvars, dvars>>

CallParse ==
    /\ fpc = "idle"
    /\ \E i \in 1..Len(arg) :
          /\ arg[i].t = "obj"
          /\ idx' = i
          /\ feat' = parse_response(arg[i].o.response)
    /\ fpc' = "parsed"
    /\ UNCHANGED <<arg, ret>>
    /\ UNCHANGED <<nvars, dvars>>



IdleNotebook ==
    /\ dirExists = FALSE
    /\ dir = <<>>
    /\ files = <<>>
    /\ pc = "load"
    /\ listing = <<>>
    /\ data = <<>>
    /\ opened = {}
    /\ all_samples = <<>>
    /\ defined = FALSE
    /\ stdout = <<>>
    /\ runs = 0
    /\ error = ""
    /\ dataDir = <<>>
    /\ dpc = "idle"
    /\ dataset = <<>>
    /\ derror = ""

NextFilter == CallFilter \/ CallParse

InitF == InitFilter /\ IdleNotebook

SpecFilter == InitF /\ [][NextFilter]_vars

(* ======================= properties: filter_samples ==================== *)

Range(seq) == {seq[i] : i \in 1..Len(seq)}

RECURSIVE Pick(_, _, _)
\* the subsequence of seq at the positions in K, from position i on
Pick(seq, K, i) ==
    IF i > Len(seq) THEN <<>>
    ELSE (IF i \in K THEN <<seq[i]>> ELSE <<>>) \o Pick(seq, K, i + 1)

FeaturesOf(sample) == parse_response(sample.o.response)

NonNumeric(s) == ~pyInt(s).ok
ReadsZero(s)  == pyInt(s).ok /\ pyInt(s).v = 0
NonZeroInt(s) == pyInt(s).ok /\ pyInt(s).v # 0

HasNonZero(f) == ~f.none /\ \E j \in 1..Len(f.d) : NonZeroInt(f.d[j].v)
HasNonNumeric(f) == ~f.none /\ \E j \in 1..Len(f.d) : NonNumeric(f.d[j].v)

AllObjects == \A i \in 1..Len(arg) : arg[i].t = "obj"

\* C2: when filter_samples returns, (retained, removed) split the input by
\* position: some set K of positions gives retained, the other positions give
\* removed, each in input order, and no sample is in both.
C2_Partition ==
    (fpc = "filtered" /\ ~ret.raised) =>
        /\ \E K \in SUBSET (1..Len(arg)) :
              /\ ret.filtered_data = Pick(arg, K, 1)
              /\ ret.removed_samples = Pick(arg, (1..Len(arg)) \ K, 1)
        /\ Range(ret.filtered_data) \cap Range(ret.removed_samples) = {}

\* a sample retained twice around a removed one
C2_Witness ==
    /\ fpc = "filtered"
    /\ ~ret.raised
    /\ Len(arg) = 3
    /\ arg[1] = arg[3]
    /\ ret.filtered_data = <<arg[1], arg[3]>>
    /\ ret.removed_samples = <<arg[2]>>

\* C3: when filter_samples returns, a sample is retained if and only if
\* parse_response gives a Feature Map with a value that reads as a non-zero
\* integer, and is removed otherwise (no map, empty map, all values 0).
C3_RetainedIffNonZero ==
    (fpc = "filtered" /\ ~ret.raised) =>
        \A i \in 1..Len(arg) :
            /\ arg[i] \in Range(ret.filtered_data) <=> HasNonZero(FeaturesOf(arg[i]))
            /\ arg[i] \in Range(ret.removed_samples) <=> ~HasNonZero(FeaturesOf(arg[i]))

\* {"a": 1, "b": 0} retained, {"a": 0, "b": "0", "c": null} removed
C3_Witness ==
    /\ fpc = "filtered"
    /\ ~ret.raised
    /\ \E i, j \in 1..Len(arg) :
          /\ arg[i] \in Range(ret.filtered_data)
          /\ \E k \in 1..Len(FeaturesOf(arg[i]).d) : ReadsZero(FeaturesOf(arg[i]).d[k].v)
          /\ arg[j] \in Range(ret.removed_samples)
          /\ arg[j].o.response = OneLine(<<VInt0, VStr0, VNull>>)
          /\ Len(FeaturesOf(arg[j]).d) = 3

\* C4 as stated: a non-numeric value anywhere in a sample's Feature Map makes
\* filter_samples fail.
C4_AnyNonNumericRaises ==
    (fpc = "filtered" /\ AllObjects
        /\ \E i \in 1..Len(arg) : HasNonNumeric(FeaturesOf(arg[i])))
    => ret.raised

\* a non-numeric value that every value before it, in the map's order, reads 0
Reached(f) ==
    /\ ~f.none
    /\ \E j \in 1..Len(f.d) :
          /\ NonNumeric(f.d[j].v)
          /\ \A k \in 1..(j - 1) : ReadsZero(f.d[k].v)

\* C4 amended: filter_samples fails exactly when some sample's Feature Map has
\* a non-numeric value with only zero values before it; a sample whose
\* non-numeric value follows a non-zero value is retained.
C4_RaisesIffReached ==
    (fpc = "filtered" /\ AllObjects) =>
        /\ ret.raised <=> \E i \in 1..Len(arg) : Reached(FeaturesOf(arg[i]))
        /\ ~ret.raised =>
              \A i \in 1..Len(arg) :
                  HasNonNumeric(FeaturesOf(arg[i])) => arg[i] \in Range(ret.filtered_data)

\* {"a": 1, "b": "high"} is retained without an error
C4_Witness ==
    /\ fpc = "filtered"
    /\ Len(arg) = 1
    /\ arg[1].t = "obj"
    /\ arg[1].o.response = OneLine(<<VInt1, VHigh>>)
    /\ ~ret.raised
    /\ ret.filtered_data = arg

\* no opening brace with a closing brace after it, or a match json.loads rejects
NoBracePair(r) ==
    ~\E i, j \in 1..Len(r) : i < j /\ r[i].t = "{" /\ r[j].t = "}"

ExtractionFails(r) ==
    \/ NoBracePair(r)
    \/ regex_search(r).found /\ ~json_loads(regex_search(r).group).ok

\* C5: for a response without a {...} substring or with a match that is not
\* valid JSON, parse_response returns 'no features'; filter_samples puts the
\* sample in removed and goes on, and raises no error on account of it.
C5_ExtractionFailureRemoved ==
    /\ (fpc = "parsed" /\ ExtractionFails(arg[idx].o.response)) => feat = NoFeatures
    /\ fpc = "filtered" =>
          /\ (AllObjects /\ \A i \in 1..Len(arg) : ExtractionFails(arg[i].o.response))
                => (~ret.raised /\ ret.removed_samples = arg /\ ret.filtered_data = <<>>)
          /\ ~ret.raised =>
                \A i \in 1..Len(arg) :
                    ExtractionFails(arg[i].o.response) =>
                        /\ arg[i] \in Range(ret.removed_samples)
                        /\ arg[i] \notin Range(ret.filtered_data)

\* a response without braces and one with a malformed object are removed, and
\* the sample after them is retained
C5_Witness ==
    /\ fpc = "filtered"
    /\ ~ret.raised
    /\ Len(arg) = 3
    /\ NoBracePair(arg[1].o.response)
    /\ regex_search(arg[2].o.response).found
    /\ ~json_loads(regex_search(arg[2].o.response).group).ok
    /\ ret.removed_samples = <<arg[1], arg[2]>>
    /\ ret.filtered_data = <<arg[3]>>

\* the values written in a response, in order
ValuesIn(r) == SelectSeq(r, LAMBDA tok : tok \in ValueToks)

\* the response is one object, with the values o, embedded in brace-free prose
IsEmbedded(r, o) ==
    \E pre \in Prefixes, post \in Suffixes :
        r = pre \o OneLine(o) \o post \/ r = pre \o MultiLine(o) \o post

IsEmbeddedOneLine(r, o) ==
    \E pre \in Prefixes, post \in Suffixes : r = pre \o OneLine(o) \o post

NonZeroTok(tok) == tok \notin {VInt0, VStr0, VNull}

\* C6 as stated: one well-formed object embedded in brace-free prose is
\* extracted as the Feature Map wherever it sits and whether written on one
\* line or over several lines, and with a non-zero value the sample is
\* retained (when the evaluation does not fail).
C6_EmbeddedObjectExtracted ==
    /\ fpc = "parsed" =>
          LET o == ValuesIn(arg[idx].o.response)
          IN  (o # <<>> /\ IsEmbedded(arg[idx].o.response, o)) =>
                  (~feat.none /\ Len(feat.d) = Len(o))
    /\ (fpc = "filtered" /\ Len(arg) = 1 /\ arg[1].t = "obj" /\ ~ret.raised) =>
          LET o == ValuesIn(arg[1].o.response)
          IN  (IsEmbedded(arg[1].o.response, o)
                  /\ \E i \in 1..Len(o) : NonZeroTok(o[i]))
              => ret.filtered_data = arg

\* str(v) of each enumerated JSON value, '0' for null
ExpectedStr(tok) ==
    CASE tok = VInt0  -> <<"0">>
      [] tok = VInt1  -> <<"1">>
      [] tok = VStr0  -> <<"0">>
      [] tok = VStr7  -> <<"7">>
      [] tok = VHigh  -> <<"h", "i", "g", "h">>
      [] tok = VNull  -> <<"0">>
      [] tok = VFloat -> <<"1", ".", "5">>
      [] tok = VTrue  -> <<"T", "r", "u", "e">>

\* C10: when parse_response finds a valid JSON object, the map returned has
\* exactly that object's keys, null is mapped to "0" and every other value to
\* its string form.
C10_ValuesStringified ==
    fpc = "parsed" =>
        /\ LET o == ValuesIn(arg[idx].o.response)
           IN  IsEmbeddedOneLine(arg[idx].o.response, o) =>
                   /\ ~feat.none
                   /\ feat.d = [i \in 1..Len(o) |->
                                   [k |-> <<Letters[i]>>, v |-> ExpectedStr(o[i])]]
        /\ LET m == regex_search(arg[idx].o.response)
           IN  (m.found /\ json_loads(m.group).ok) =>
                   /\ ~feat.none
                   /\ Len(feat.d) = Len(json_loads(m.group).val.d)
                   /\ \A i \in 1..Len(feat.d) :
                         feat.d[i].k = json_loads(m.group).val.d[i].k

\* {"a": null, "b": 0} gives {"a": "0", "b": "0"}
C10_Witness ==
    /\ fpc = "parsed"
    /\ arg[idx].o.response = OneLine(<<VNull, VInt0>>)
    /\ feat = Features(<< [k |-> <<"a">>, v |-> <<"0">>],
                          [k |-> <<"b">>, v |-> <<"0">>] >>)

\* the tokens of r from its first opening brace to its last closing brace
FirstToLastBrace(r) ==
    SubSeq(r, MinOf({i \in 1..Len(r) : r[i] = LB}),
              MaxOf({i \in 1..Len(r) : r[i] = RB}))

\* one line holding two or more well-formed objects with prose between them
ManyObjectLine(r) == r \in TwoObjects \cup SeveralObjects

\* C14: for a one-line response with two or more well-formed objects and
\* prose between them, the text handed to json.loads runs from the first
\* opening brace to the last closing brace, json.loads rejects it,
\* parse_response returns 'no features', and filter_samples removes the
\* sample, whatever the values of the objects.
C14_SeveralObjectsRemoved ==
    /\ fpc = "parsed" /\ ManyObjectLine(arg[idx].o.response) =>
          LET r == arg[idx].o.response
          IN  /\ \A i \in 1..Len(r) : r[i] # NL
              /\ regex_search(r) = [found |-> TRUE, group |-> FirstToLastBrace(r)]
              /\ ~json_loads(FirstToLastBrace(r)).ok
              /\ feat = NoFeatures
    /\ fpc = "filtered" /\ ~ret.raised =>
          \A i \in 1..Len(arg) :
              (arg[i].t = "obj" /\ ManyObjectLine(arg[i].o.response)) =>
                  /\ arg[i] \in Range(ret.removed_samples)
                  /\ arg[i] \notin Range(ret.filtered_data)

\* {"a": 1} and {"a": "7"}, each retained on its own, removed when on one line
C14_Witness ==
    /\ fpc = "filtered"
    /\ ~ret.raised
    /\ Len(arg) = 1
    /\ arg[1].t = "obj"
    /\ arg[1].o.response = OneLine(<<VInt1>>) \o <<SP, W, SP>> \o OneLine(<<VStr7>>)
    /\ HasNonZero(parse_response(OneLine(<<VInt1>>)))
    /\ HasNonZero(parse_response(OneLine(<<VStr7>>)))
    /\ ret.removed_samples = arg
    /\ ret.filtered_data = <<>>

(* ========================= properties: the notebook ==================== *)

\* the elements read back from the output file
OutputItems == json_load(files[OutputName].text).val.items

\* C1 as stated: after a run, every sample in merged_data.json has a Feature
\* Map with a value that reads as a non-zero integer.
C1_OutputOnlyNonZero ==
    pc = "done" =>
        \A i \in 1..Len(OutputItems) :
            OutputItems[i].t = "obj" => HasNonZero(FeaturesOf(OutputItems[i]))

\* C7 as stated: after a run, the output file read back is the retained
\* sequence filter_samples computes over the loaded samples.
C7_OutputIsRetained ==
    (pc = "done" /\ ~filter_samples(all_samples).raised) =>
        /\ json_load(files[OutputName].text).ok
        /\ OutputItems = filter_samples(all_samples).filtered_data

JsonNames == {n \in DOMAIN files : EndsWith(n, DotJson)}

\* C8 as stated: load_json_files does not return when a .json file is
\* unreadable, is not valid JSON, or is not an array of sample objects.
C8_RejectsNonArrays ==
    pc = "report" =>
        \A n \in JsonNames :
            /\ files[n].readable
            /\ json_load(files[n].text).ok
            /\ json_load(files[n].text).val.t = "list"
            /\ \A i \in 1..Len(json_load(files[n].text).val.items) :
                  json_load(files[n].text).val.items[i].t = "obj"

\* the top-level value of a file's text, read off its first token
TopLevel(text) ==
    IF text = <<>> THEN "none"
    ELSE IF Head(text).t = "[" /\ text[Len(text)].t = "]" THEN "array"
    ELSE IF Len(text) = 1 THEN Head(text).t
    ELSE "none"

\* C8 amended: load_json_files does not return when the directory is missing
\* or a .json file is unreadable, is not valid JSON, or holds a number, a
\* boolean or null; the failing call assigns nothing. A top-level object or
\* string and an array of other things than objects are accepted.
C8_RejectsUnreadableInvalidScalar ==
    /\ pc = "report" =>
          /\ dirExists
          /\ \A n \in JsonNames :
                /\ files[n].readable
                /\ TopLevel(files[n].text) \in {"array", "obj", "str"}
    /\ (pc = "failed" /\ runs = 0) =>
          /\ ~defined
          /\ all_samples = <<>>
          /\ error \in {"FileNotFoundError", "PermissionError",
                        "JSONDecodeError", "TypeError"}

\* the second file read is bad: what the first gave is not returned
C8_Witness ==
    /\ pc = "failed"
    /\ error \in {"JSONDecodeError", "TypeError"}
    /\ data # <<>>
    /\ ~defined
    /\ all_samples = <<>>

RECURSIVE ElementsOf(_)
\* the element tokens of the .json entries of a listing, in order
ElementsOf(entries) ==
    IF entries = <<>> THEN <<>>
    ELSE (IF EndsWith(Head(entries), DotJson)
          THEN SelectSeq(files[Head(entries)].text, LAMBDA tok : IsElement(tok.t))
          ELSE <<>>)
         \o ElementsOf(Tail(entries))

\* C9: when every .json file holds an array, load_json_files returns the
\* arrays' elements file after file in listing order, each file's in their own
\* order, every occurrence kept; other files contribute nothing.
C9_Concatenation ==
    (pc = "report" /\ \A n \in JsonNames : TopLevel(files[n].text) = "array") =>
        all_samples = ElementsOf(dir)

\* b.json listed before a.json, a sample present in both, and a .txt file
\* holding an array
C9_Witness ==
    /\ pc = "report"
    /\ dir = <<NameB, NameTxt, NameA>>
    /\ files[NameB].text = json_dump(<<Kept>>)
    /\ files[NameTxt].text = json_dump(<<Dropped>>)
    /\ files[NameA].text = json_dump(<<Kept, Dropped>>)
    /\ all_samples = <<Kept, Kept, Dropped>>

\* C12: at most one input file is open at any moment, and only between its
\* open and the end of its with block: the open file is the entry the loop
\* is at, and no file is open when the loop moves to the next entry, when
\* load_json_files has returned, or when it has raised (a file whose content
\* does not parse included).
C12_OneFileOpenAtATime ==
    /\ Cardinality(opened) <= 1
    /\ pc = "with" => (listing # <<>> /\ opened = {Head(listing)})
    /\ pc # "with" => opened = {}

\* a first file was read and closed, the second failed to parse and is closed
C12_Witness ==
    /\ pc = "failed"
    /\ error = "JSONDecodeError"
    /\ opened = {}
    /\ data # <<>>
    /\ Len(listing) >= 1
    /\ ~json_load(files[Head(listing)].text).ok

\* the directory exists and held no .json file when the notebook started: no
\* .json entry yet, or, the first run done, only the output it wrote
ZeroJsonFiles ==
    /\ dirExists
    /\ \/ JsonNames = {}
       \/ (JsonNames = {OutputName} /\ runs = 1 /\ pc = "done")

\* C13: on an existing directory with zero .json files the run does not fail
\* and can always take its next step, load_json_files returns no sample, the
\* total reported is 0, and when the run is done the output file exists and
\* holds an empty JSON array.
C13_ZeroFilesEmptyOutput ==
    ZeroJsonFiles =>
        /\ pc # "failed"
        /\ pc # "done" =>
              ENABLED (LoadCall \/ LoadSkip \/ LoadReturn \/ ReportCell \/ SaveCell)
        /\ pc \in {"report", "save"} => (defined /\ all_samples = <<>>)
        /\ pc = "save" => stdout = <<Printed("total", 0)>>
        /\ pc = "done" =>
              /\ stdout = <<Printed("total", 0), Printed("saved", 0)>>
              /\ OutputName \in DOMAIN files
              /\ files[OutputName].text = <<FLBK, FRBK>>
              /\ json_load(files[OutputName].text) =
                     [ok |-> TRUE, val |-> JList(<<>>)]

\* a directory holding only n.txt: the run is done, 0 reported, [] written
C13_Witness ==
    /\ pc = "done"
    /\ runs = 1
    /\ DOMAIN files = {NameTxt, OutputName}
    /\ stdout = <<Printed("total", 0), Printed("saved", 0)>>
    /\ files[OutputName].text = <<FLBK, FRBK>>

\* the samples of the source files: the elements of the .json entries other
\* than the output file
SourceSamples == ElementsOf(SelectSeq(dir, LAMBDA e : e # OutputName))

SourceArrays ==
    \A n \in JsonNames \ {OutputName} : TopLevel(files[n].text) = "array"

\* C15: started with no output file, over source files that hold arrays of n
\* samples in all, the k-th run loads k*n samples (the n of the source files
\* and the (k-1)*n of the previous output), and the output file holds k*n
\* samples after k runs.
C15_OutputGrowsEachRun ==
    SourceArrays =>
        /\ pc \in {"report", "save"} =>
              Len(all_samples) = (runs + 1) * Len(SourceSamples)
        /\ pc = "done" => Len(OutputItems) = runs * Len(SourceSamples)

\* two runs over source files with at least one sample: the second output
\* is twice the first
C15_Witness ==
    /\ pc = "done"
    /\ runs = 2
    /\ SourceArrays
    /\ Len(SourceSamples) >= 1
    /\ Len(OutputItems) = 2 * Len(SourceSamples)
    /\ Len(all_samples) = 2 * Len(SourceSamples)

(* ================= properties: the fine-tuning notebook ================ *)

\* C11: when the dataset cell runs after a run of the merge/filter notebook
\* has written its output (samples only), the path it opens denotes the
\* location of output_file (from some working directory), the cell succeeds,
\* and the dataset has one row per sample of the output file, in the same
\* order.
C11_DriverReadsPipelineOutput ==
    [][(/\ dpc = "idle"
        /\ dpc' # "idle"
        /\ pc = "done"
        /\ \A i \in 1..Len(OutputItems) : OutputItems[i].t = "obj")
       => /\ \E wd \in Cwds : Locate(wd, train_file) = Locate(<<>>, output_file)
          /\ dpc' = "loaded"
          /\ dataset' = Rows(OutputItems)]_vars

====
